---- MODULE Spec2Model ----
(***************************************************************************)
(* Vaporlight: the low-level protocol binding (llvp.py: command encoders,  *)
(* NetProtocol.read, BusProtocol.read) and the bus emulator (emulator.py:  *)
(* byte sources, Controller.read_frames, Controller.run, Model).           *)
(*                                                                         *)
(* A byte is a number 0..255.  The Python generators are modelled as step  *)
(* functions: one step is one send() of a byte into the suspended          *)
(* generator, up to the next point where it waits for a byte.  A step      *)
(* returns the generator's new state, the value send() returned (a         *)
(* command, or NoCmd for None) and the exception that ended the generator, *)
(* if any.                                                                 *)
(***************************************************************************)
EXTENDS Integers, Sequences, FiniteSets, TLC

VARIABLES
    bp, busFed, busOut,
    np, netOut,
    linkProto, sent, wire, wirePos,
    emuSource, conn, sessions, thread, rf, frames, back_buffer, front_buffer,
    mpc, tmp_buffer, published, snapshots, obsCalls, mcalls,
    vpc, idle_queue, viewRead, configures,
    clients, backlog, serving, chunk, stream, accepted,
    ctlCalls

busVars  == <<bp, busFed, busOut>>
netVars  == <<np, netOut>>
linkVars == <<linkProto, sent, wire, wirePos>>
emuVars  == <<emuSource, conn, sessions, thread, rf, frames, back_buffer, front_buffer>>
modelRest == <<mpc, tmp_buffer, published, snapshots, obsCalls, mcalls,
               vpc, viewRead, configures>>
srcVars  == <<clients, backlog, serving, chunk, stream, accepted>>
otherVars == <<modelRest, idle_queue, srcVars, ctlCalls>>
vars     == <<bp, busFed, busOut, np, netOut, linkProto, sent, wire, wirePos,
              emuSource, conn, sessions, thread, rf, frames, back_buffer, front_buffer,
              mpc, tmp_buffer, published, snapshots, obsCalls, mcalls,
              vpc, idle_queue, viewRead, configures,
              clients, backlog, serving, chunk, stream, accepted, ctlCalls>>

----------------------------------------------------------------------------
(* Bounds of the model. *)

\* Bytes fed to BusProtocol.read in one session.
MaxBusStream == 7

\* Commands a sender encodes onto one link.
MaxCmds == 2

\* Bytes delivered to the emulator over all client sessions.
MaxEmuStream == 6

\* Clients that connect to the emulator's NetworkByteSource, one after another.
MaxClients == 2

\* Modules and LEDs per module of the emulator's Model (--modules, --leds).
Modules == 2
LedsPerModule == 1

\* Longest token handed to AuthenticateCommand (one more than the wire's 16).
MaxTokenLen == 17

\* Calls of set_value and strobe the controller thread makes on the Model.
MaxModelCalls == 4

\* Configure events the GTK main loop delivers to the view.
MaxConfigures == 1

\* Bytes one client sends to the emulator's NetworkByteSource.
MaxClientBytes == 2

\* Calls made on one FilelikeController, the constructor included.
MaxCtlCalls == 3

----------------------------------------------------------------------------
(* Wire constants of llvp.py. *)

STROBE_PADDR == 254
START_OF_CMD_MARKER == 85
ESCAPE_BYTE == 84

\* UNESCAPE = {0x00: 0x54, 0x01: 0x55}
UNESCAPE == (0 :> 84) @@ (1 :> 85)

\* The values of UNESCAPE: the bytes that need escaping.
UNESCAPE_values == {UNESCAPE[k] : k \in DOMAIN UNESCAPE}

StrobeOpcode == 255
SetLedOpcode == 1
AuthenticateOpcode == 2
HighResSetLedOpcode == 3

\* token.ljust(16, "\x00") and range(16)
TokenWidth == 16

\* The lens a BusProtocol is constructed with: a list indexed by module
\* address (module 0 has 2 channels, module 1 has 1).
module_lens == (0 :> 2) @@ (1 :> 1)

----------------------------------------------------------------------------
(* Commands.  Every command is a record of the same shape: id is led or    *)
(* mod_id, data is _color, _token or channels.                             *)

Cmd(t, i, d) == [type |-> t, id |-> i, data |-> d]

\* What send() returns when the generator yields no command (None).
NoCmd == Cmd("None", 0, <<>>)

StrobeCommand == Cmd("Strobe", 0, <<>>)

BusStrobeCommand == Cmd("BusStrobe", 0, <<>>)

BusSetChannelsCommand(mod_id, channels) == Cmd("BusSetChannels", mod_id, channels)

SetLedCommand(led, color) == Cmd("SetLed", led, color)

HighResSetLedCommand(led, color) == Cmd("HighResSetLed", led, color)

\* str.ljust(16, "\x00"): pads on the right; a longer string is returned as is.
ljust(token) ==
    IF Len(token) >= TokenWidth THEN token
    ELSE token \o [i \in 1..(TokenWidth - Len(token)) |-> 0]

AuthenticateCommand(token) == Cmd("Authenticate", 0, ljust(token))

----------------------------------------------------------------------------
(* Encoders: to_str.  The result is the byte string returned, or the       *)
(* exception raised.                                                       *)

Returned(bytes) == [raised |-> "", bytes |-> bytes]

Raised(e) == [raised |-> e, bytes |-> <<>>]

StrobeCommand_to_str == Returned(<<StrobeOpcode>>)

BusStrobeCommand_to_str == Returned(<<START_OF_CMD_MARKER, STROBE_PADDR>>)

\* res is a str; the loop appends only for values that need escaping, and
\* str has no append (AttributeError).  Other values are skipped.
BusSetChannelsCommand_to_str(c) ==
    LET vals == <<c.id>> \o c.data
    IN  IF \E i \in 1..Len(vals) : vals[i] \in UNESCAPE_values
        THEN Raised("AttributeError")
        ELSE Returned(<<START_OF_CMD_MARKER>>)

\* A variant that writes the led number low byte first.
SetLedCommand_to_str_LowFirst(c) ==
    Returned(<<SetLedOpcode, c.id % 256, c.id \div 256,
               c.data[1], c.data[2], c.data[3], c.data[4]>>)

SetLedCommand_to_str(c) ==
    Returned(<<SetLedOpcode, c.id \div 256, c.id % 256,
               c.data[1], c.data[2], c.data[3], c.data[4]>>)

AuthenticateCommand_to_str(c) == Returned(<<AuthenticateOpcode>> \o c.data)

HighResSetLedCommand_to_str(c) ==
    Returned(<<HighResSetLedOpcode, c.id \div 256, c.id % 256,
               c.data[1] \div 256, c.data[1] % 256,
               c.data[2] \div 256, c.data[2] % 256,
               c.data[3] \div 256, c.data[3] % 256,
               c.data[4] \div 256, c.data[4] % 256>>)

\* command.to_str(), by the command's class.
to_str(c) ==
    CASE c.type = "Strobe"         -> StrobeCommand_to_str
      [] c.type = "BusStrobe"      -> BusStrobeCommand_to_str
      [] c.type = "BusSetChannels" -> BusSetChannelsCommand_to_str(c)
      [] c.type = "SetLed"         -> SetLedCommand_to_str(c)
      [] c.type = "Authenticate"   -> AuthenticateCommand_to_str(c)
      [] c.type = "HighResSetLed"  -> HighResSetLedCommand_to_str(c)

----------------------------------------------------------------------------
(* BusProtocol.read: the length-aware decoder.  pc names the line where    *)
(* the generator is suspended.                                             *)

\* After next(): first_byte_after_cmd = 0x00, so the generator waits in the
\* skip loop.
BusProtocolInit ==
    [pc |-> "L98", first_byte_after_cmd |-> 0, addr |-> 0, continue_reading |-> 0,
     new_values |-> <<>>, values |-> <<>>, yielded |-> NoCmd, raised |-> ""]

BusRaise(st, e) == [st EXCEPT !.pc = "raised", !.raised = e, !.yielded = NoCmd]

\* A variant that looks for an escape only at the end of the batch.
NumOfEscapesLastOnly(new_values) ==
    IF new_values[Len(new_values)] = ESCAPE_BYTE THEN 1 ELSE 0

\* len([True for val in new_values if val == self.ESCAPE_BYTE])
NumOfEscapes(new_values) ==
    Cardinality({i \in 1..Len(new_values) : new_values[i] = ESCAPE_BYTE})

\* The unescape loop over values: [ok, out]; not ok is the KeyError of
\* UNESCAPE[val] for an escaped val that is no key.
RECURSIVE UnescapeLoop(_, _, _, _)
UnescapeLoop(values, i, escaped, unescaped) ==
    IF i > Len(values) THEN [ok |-> TRUE, out |-> unescaped]
    ELSE IF values[i] = ESCAPE_BYTE
         THEN UnescapeLoop(values, i + 1, TRUE, unescaped)
    ELSE IF escaped
         THEN IF values[i] \in DOMAIN UNESCAPE
              THEN UnescapeLoop(values, i + 1, FALSE,
                                Append(unescaped, UNESCAPE[values[i]]))
              ELSE [ok |-> FALSE, out |-> unescaped]
    ELSE UnescapeLoop(values, i + 1, FALSE, Append(unescaped, values[i]))

\* All batches read: unescape and yield the command.
BusFinish(st, values) ==
    LET u == UnescapeLoop(values, 1, FALSE, <<>>)
    IN  IF ~u.ok THEN BusRaise([st EXCEPT !.values = values, !.new_values = <<>>], "KeyError")
        ELSE [st EXCEPT !.pc = "L138", !.values = values, !.new_values = <<>>,
                        !.continue_reading = 0,
                        !.yielded = BusSetChannelsCommand(st.addr, u.out)]

\* A variant that looks the address up in module_lens before it tests for
\* the strobe address.
BusDispatchLensFirst(st, addr) ==
    IF addr \notin DOMAIN module_lens
    THEN BusRaise([st EXCEPT !.addr = addr], "IndexError")
    ELSE IF addr = STROBE_PADDR
    THEN [st EXCEPT !.pc = "L109", !.addr = addr, !.yielded = BusStrobeCommand]
    ELSE IF module_lens[addr] = 0
    THEN BusFinish([st EXCEPT !.addr = addr], <<>>)
    ELSE [st EXCEPT !.pc = "L116", !.addr = addr, !.values = <<>>,
                    !.new_values = <<>>, !.continue_reading = module_lens[addr],
                    !.yielded = NoCmd]

\* The if/elif/else on addr.
BusDispatch(st, addr) ==
    IF addr = STROBE_PADDR
    THEN [st EXCEPT !.pc = "L109", !.addr = addr, !.yielded = BusStrobeCommand]
    ELSE IF addr = START_OF_CMD_MARKER
    THEN BusRaise([st EXCEPT !.addr = addr], "UnexpectedSyncError")
    ELSE IF addr \notin DOMAIN module_lens
    THEN BusRaise([st EXCEPT !.addr = addr], "IndexError")
    ELSE IF module_lens[addr] = 0
    THEN BusFinish([st EXCEPT !.addr = addr], <<>>)
    ELSE [st EXCEPT !.pc = "L116", !.addr = addr, !.values = <<>>,
                    !.new_values = <<>>, !.continue_reading = module_lens[addr],
                    !.yielded = NoCmd]

\* One batch of continue_reading bytes is complete.
BusBatch(st, new_values) ==
    IF \E i \in 1..Len(new_values) : new_values[i] = START_OF_CMD_MARKER
    THEN BusRaise([st EXCEPT !.new_values = new_values], "UnexpectedSyncError")
    ELSE LET n == NumOfEscapes(new_values)
             values == st.values \o new_values
         IN  IF n > 0
             THEN [st EXCEPT !.values = values, !.new_values = <<>>,
                             !.continue_reading = n, !.yielded = NoCmd]
             ELSE BusFinish(st, values)

\* A variant that seeks the next START after every command.
SeekAlways(first_byte_after_cmd) == "L98"

\* The top of the loop after a command: where the generator waits next.
\* With first_byte_after_cmd != 0x55 it is the seeking loop, else the read
\* of the address.
SeekOrAddr(first_byte_after_cmd) ==
    IF first_byte_after_cmd # 85 THEN "L98" ELSE "L102"

\* send(chr(b)) into the generator.
BusSend(st, b) ==
    CASE st.pc = "L98" ->
            IF b = 85 THEN [st EXCEPT !.pc = "L102", !.yielded = NoCmd]
            ELSE [st EXCEPT !.yielded = NoCmd]
      [] st.pc = "L102" ->
            IF b = ESCAPE_BYTE
            THEN [st EXCEPT !.pc = "L104", !.addr = b, !.yielded = NoCmd]
            ELSE IF b = START_OF_CMD_MARKER
            THEN BusRaise([st EXCEPT !.addr = b], "UnexpectedSyncError")
            ELSE BusDispatch(st, b)
      [] st.pc = "L104" ->
            \* UNESCAPE[(yield)]: the key is the 1-character string that was
            \* sent (no ord() here), and UNESCAPE's keys are ints.
            BusRaise(st, "KeyError")
      [] st.pc = "L116" ->
            LET nv == Append(st.new_values, b)
            IN  IF Len(nv) < st.continue_reading
                THEN [st EXCEPT !.new_values = nv, !.yielded = NoCmd]
                ELSE BusBatch(st, nv)
      [] st.pc \in {"L109", "L138"} ->
            [st EXCEPT !.first_byte_after_cmd = b, !.yielded = NoCmd,
                       !.pc = SeekOrAddr(b)]

----------------------------------------------------------------------------
(* NetProtocol.read: the decoder of the high-level commands.  pc is        *)
(* "opcode" where the generator waits for an opcode (line 66, or the yield *)
(* of a command at lines 69 and 72), "L69" inside SetLedCommand's          *)
(* arguments, "L74" inside the token's list comprehension.                 *)

NetProtocolInit == [pc |-> "opcode", args |-> <<>>, yielded |-> NoCmd, raised |-> ""]

NetRaise(st, e) == [st EXCEPT !.pc = "raised", !.raised = e, !.yielded = NoCmd]

\* A variant that reads the led number low byte first.
SetLedFromArgsLittleEndian(args) ==
    SetLedCommand(args[2] * 256 + args[1], <<args[3], args[4], args[5], args[6]>>)

\* SetLedCommand(ord((yield))<<8|ord((yield)), (ord((yield)), ... )): the
\* six bytes in the order received.
SetLedFromArgs(args) ==
    SetLedCommand(args[1] * 256 + args[2], <<args[3], args[4], args[5], args[6]>>)

\* The if/elif/else on opcode: no branch for HighResSetLedCommand.opcode.
NetDispatch(st, opcode) ==
    IF opcode = SetLedOpcode
    THEN [st EXCEPT !.pc = "L69", !.args = <<>>, !.yielded = NoCmd]
    ELSE IF opcode = StrobeOpcode
    THEN [st EXCEPT !.pc = "opcode", !.args = <<>>, !.yielded = StrobeCommand]
    ELSE IF opcode = AuthenticateOpcode
    THEN [st EXCEPT !.pc = "L74", !.args = <<>>, !.yielded = NoCmd]
    ELSE NetRaise(st, "ProtocolError")

\* send(chr(b)) into the generator.
NetSend(st, b) ==
    CASE st.pc = "opcode" -> NetDispatch(st, b)
      [] st.pc = "L69" ->
            LET args == Append(st.args, b)
            IN  IF Len(args) < 6
                THEN [st EXCEPT !.args = args, !.yielded = NoCmd]
                ELSE [st EXCEPT !.pc = "opcode", !.args = args,
                                !.yielded = SetLedFromArgs(args)]
      [] st.pc = "L74" ->
            LET args == Append(st.args, b)
            IN  IF Len(args) < TokenWidth
                THEN [st EXCEPT !.args = args, !.yielded = NoCmd]
                \* AuthenticateCommand(<list>): a list has no ljust.
                ELSE NetRaise([st EXCEPT !.args = args], "AttributeError")

----------------------------------------------------------------------------
(* emulator.py: Controller.read_frames, the delimiter-mode decoder.        *)

STATE_IGNORE == 0
STATE_NORMAL == 1
STATE_ESCAPE == 2

ESCAPE_MARK == 84
START_MARK == 85
ESCAPE_ESCAPED == 0
START_ESCAPED == 1

\* The generator's locals before the first byte.  yields says whether the
\* step handed a frame to the for loop of run, frame is that frame.
ReadFramesInit ==
    [state |-> STATE_IGNORE, payload_buf |-> <<>>, yields |-> FALSE, frame |-> <<>>,
     raised |-> ""]

\* A variant that keeps the buffer after the yield.
PayloadBufKept(payload_buf) == payload_buf

\* payload_buf = [] after yield payload_buf.
PayloadBufAfterYield(payload_buf) == <<>>

\* A variant that seeks the next START after a yield.
StateAfterYieldIgnore == STATE_IGNORE

\* The state after yield payload_buf: the branch does not assign state.
StateAfterYield == STATE_NORMAL

\* One pass of the for loop over byte_stream, with num the byte.
ReadFramesStep(st, num) ==
    LET quiet == [st EXCEPT !.yields = FALSE, !.frame = <<>>]
    IN  CASE st.state = STATE_IGNORE ->
                IF num = START_MARK THEN [quiet EXCEPT !.state = STATE_NORMAL] ELSE quiet
          [] st.state = STATE_NORMAL ->
                IF num = ESCAPE_MARK THEN [quiet EXCEPT !.state = STATE_ESCAPE]
                ELSE IF num = START_MARK
                THEN [st EXCEPT !.yields = TRUE, !.frame = st.payload_buf,
                                !.payload_buf = PayloadBufAfterYield(st.payload_buf),
                                !.state = StateAfterYield]
                ELSE [quiet EXCEPT !.payload_buf = Append(st.payload_buf, num)]
          [] st.state = STATE_ESCAPE ->
                IF num = ESCAPE_ESCAPED
                THEN [quiet EXCEPT !.payload_buf = Append(st.payload_buf, ESCAPE_MARK),
                                   !.state = STATE_NORMAL]
                ELSE IF num = START_ESCAPED
                THEN [quiet EXCEPT !.payload_buf = Append(st.payload_buf, START_MARK),
                                   !.state = STATE_NORMAL]
                ELSE [quiet EXCEPT !.raised = "ProtocolViolation"]

----------------------------------------------------------------------------
(* emulator.py: Model.  A buffer maps module, led and colour index to a    *)
(* value.                                                                  *)

\* [[[0, 0, 0] for x in range(leds_per_module)] for y in range(modules)]
ZeroBuffer == [y \in 0..(Modules - 1) |-> [x \in 0..(LedsPerModule - 1) |-> [c \in 0..2 |-> 0]]]

\* Model.set_value: the IndexError of a module or led out of range is
\* swallowed.
set_value(back, module, channel, value) ==
    IF module \in 0..(Modules - 1) /\ (channel \div 3) \in 0..(LedsPerModule - 1)
    THEN [back EXCEPT ![module][channel \div 3][channel % 3] = value]
    ELSE back

\* for channel, value in enumerate(frame[1:]): set_value(frame[0], channel, value)
RECURSIVE SetValues(_, _, _)
SetValues(back, frame, i) ==
    IF i > Len(frame) THEN back
    ELSE SetValues(set_value(back, frame[1], i - 2, frame[i]), frame, i + 1)

\* A variant that skips an empty frame.
RunFrameEmptySkipped(frame, back, front) ==
    IF frame = <<254>>
    THEN [back |-> back, front |-> back, strobed |-> TRUE, raised |-> FALSE]
    ELSE [back |-> SetValues(back, frame, 2), front |-> front,
          strobed |-> FALSE, raised |-> FALSE]

\* The body of the for loop of Controller.run for one frame: the buffers
\* after it, whether it called model.strobe() (which calls the observers),
\* and whether it raised ProtocolViolation.
RunFrame(frame, back, front) ==
    IF frame = <<254>>
    THEN [back |-> back, front |-> back, strobed |-> TRUE, raised |-> FALSE]
    ELSE IF Len(frame) >= 1
    THEN [back |-> SetValues(back, frame, 2), front |-> front,
          strobed |-> FALSE, raised |-> FALSE]
    ELSE [back |-> back, front |-> front, strobed |-> FALSE, raised |-> TRUE]

----------------------------------------------------------------------------
(* The bytes of the model's streams. *)

\* Bytes fed to BusProtocol.read: the module addresses and escape codes
\* 0 and 1, a plain value 7 (no module), ESCAPE, START and the strobe address.
BusBytes == {0, 1, 7, 84, 85, 254}

\* Bytes sent to the emulator: module addresses and escape codes 0 and 1,
\* ESCAPE, START and the strobe address (which is no escape code).
EmuBytes == {0, 1, 84, 85, 254}

----------------------------------------------------------------------------
(* SpecBus: any bytes fed to one BusProtocol.read session. *)

Idle == <<>>

BusIdle == bp = BusProtocolInit /\ busFed = <<>> /\ busOut = <<>>

NetIdle == np = Idle /\ netOut = <<>>

LinkIdle == linkProto = "none" /\ sent = <<>> /\ wire = <<>> /\ wirePos = 0

EmuIdle ==
    /\ emuSource = "none" /\ conn = "none" /\ sessions = <<>> /\ thread = "none"
    /\ rf = Idle /\ frames = <<>> /\ back_buffer = Idle /\ front_buffer = Idle

ModelRestIdle ==
    /\ mpc = "none" /\ tmp_buffer = Idle /\ published = FALSE /\ snapshots = <<>>
    /\ obsCalls = <<>> /\ mcalls = 0 /\ vpc = "none" /\ viewRead = Idle
    /\ configures = 0

ModelIdle == ModelRestIdle /\ idle_queue = 0

SrcIdle ==
    /\ clients = <<>> /\ backlog = <<>> /\ serving = 0 /\ chunk = <<>> /\ stream = <<>>
    /\ accepted = <<>>

CtlIdle == ctlCalls = <<>>

OtherIdle == ModelIdle /\ SrcIdle /\ CtlIdle

InitBus == BusIdle /\ NetIdle /\ LinkIdle /\ EmuIdle /\ OtherIdle

\* An exception that came out of send(), as an entry of the output history.
Exc(e) == Cmd(e, 0, <<>>)

\* The feeder sends one byte.  What send() gives back is recorded with the
\* number of bytes fed so far: a yielded command, or the exception that ends
\* the generator.  A generator that has ended yields nothing more (send()
\* raises StopIteration).
BusFeed(b) ==
    /\ Len(busFed) < MaxBusStream
    /\ bp' = IF bp.pc = "raised" THEN bp ELSE BusSend(bp, b)
    /\ busFed' = Append(busFed, b)
    /\ busOut' = IF bp.pc = "raised" THEN busOut
                 ELSE IF bp'.pc = "raised"
                 THEN Append(busOut, [cmd |-> Exc(bp'.raised), at |-> Len(busFed')])
                 ELSE IF bp'.yielded # NoCmd
                 THEN Append(busOut, [cmd |-> bp'.yielded, at |-> Len(busFed')])
                 ELSE busOut
    /\ UNCHANGED <<netVars, linkVars, emuVars, otherVars>>

NextBus == \E b \in BusBytes : BusFeed(b)

SpecBus == InitBus /\ [][NextBus]_vars

----------------------------------------------------------------------------
(* SpecLink: a sender encodes commands with to_str and writes them to its  *)
(* sink (FilelikeController._send: sendall(command.to_str())); the bytes   *)
(* written are delivered in order to the matching decoder, NetProtocol.read *)
(* for the high-level commands and BusProtocol.read for the bus-level ones. *)

\* Tokens handed to AuthenticateCommand: every length up to MaxTokenLen, of
\* 'a' bytes, the last one 'b' in a second variant.
Tokens ==
    UNION {{[i \in 1..n |-> 97], [i \in 1..n |-> IF i = n THEN 98 ELSE 97]} :
              n \in 0..MaxTokenLen}

Leds == {1, 511}

Colors8 == {<<255, 0, 0, 255>>, <<1, 2, 3, 4>>}

Colors16 == {<<65535, 0, 0, 65535>>, <<258, 1, 515, 256>>}

\* The high-level commands a controller sends, with the token given to
\* AuthenticateCommand (<<>> for the others).
NetCalls ==
    {[cmd |-> StrobeCommand, arg |-> <<>>]}
    \cup {[cmd |-> SetLedCommand(l, c), arg |-> <<>>] : l \in Leds, c \in Colors8}
    \cup {[cmd |-> HighResSetLedCommand(l, c), arg |-> <<>>] : l \in Leds, c \in Colors16}
    \cup {[cmd |-> AuthenticateCommand(t), arg |-> t] : t \in Tokens}

\* The bus-level commands: the strobe, and SetChannels for every module of
\* module_lens with every payload of that module's length.
BusCalls ==
    {[cmd |-> BusStrobeCommand, arg |-> <<>>]}
    \cup UNION {{[cmd |-> BusSetChannelsCommand(a, p), arg |-> <<>>] :
                    p \in [1..module_lens[a] -> BusBytes]} : a \in DOMAIN module_lens}

InitLink ==
    /\ linkProto \in {"net", "bus"}
    /\ sent = <<>> /\ wire = <<>> /\ wirePos = 0
    /\ np = NetProtocolInit /\ netOut = <<>>
    /\ BusIdle
    /\ EmuIdle
    /\ OtherIdle

\* _send(command): sendall(command.to_str()).  When to_str raises, nothing
\* is written.
Send(call) ==
    /\ Len(sent) < MaxCmds
    /\ LET res == to_str(call.cmd)
       IN  /\ sent' = Append(sent, [cmd |-> call.cmd, arg |-> call.arg, res |-> res])
           /\ wire' = wire \o res.bytes
    /\ UNCHANGED <<linkProto, wirePos, busVars, netVars, emuVars, otherVars>>

SendNet == linkProto = "net" /\ \E call \in NetCalls : Send(call)

SendBus == linkProto = "bus" /\ \E call \in BusCalls : Send(call)

\* The next byte of the wire reaches NetProtocol.read.
DeliverNet ==
    /\ linkProto = "net"
    /\ wirePos < Len(wire)
    /\ wirePos' = wirePos + 1
    /\ np' = IF np.pc = "raised" THEN np ELSE NetSend(np, wire[wirePos'])
    /\ netOut' = IF np.pc = "raised" THEN netOut
                 ELSE IF np'.pc = "raised"
                 THEN Append(netOut, [cmd |-> Exc(np'.raised), at |-> wirePos'])
                 ELSE IF np'.yielded # NoCmd
                 THEN Append(netOut, [cmd |-> np'.yielded, at |-> wirePos'])
                 ELSE netOut
    /\ UNCHANGED <<linkProto, sent, wire, busVars, emuVars, otherVars>>

\* The next byte of the wire reaches BusProtocol.read.
DeliverBus ==
    /\ linkProto = "bus"
    /\ wirePos < Len(wire)
    /\ wirePos' = wirePos + 1
    /\ bp' = IF bp.pc = "raised" THEN bp ELSE BusSend(bp, wire[wirePos'])
    /\ busFed' = Append(busFed, wire[wirePos'])
    /\ busOut' = IF bp.pc = "raised" THEN busOut
                 ELSE IF bp'.pc = "raised"
                 THEN Append(busOut, [cmd |-> Exc(bp'.raised), at |-> wirePos'])
                 ELSE IF bp'.yielded # NoCmd
                 THEN Append(busOut, [cmd |-> bp'.yielded, at |-> wirePos'])
                 ELSE busOut
    /\ UNCHANGED <<linkProto, sent, wire, netVars, emuVars, otherVars>>

NextLink == SendNet \/ SendBus \/ DeliverNet \/ DeliverBus

SpecLink == InitLink /\ [][NextLink]_vars

----------------------------------------------------------------------------
(* SpecCtl: one FilelikeController and the file-like object it writes to.  *)
(* ctlCalls is the calls made on it, the constructor first; sent is the    *)
(* commands handed to _send and wire the bytes sendall was given.          *)

\* Tokens given to the constructor: shorter than the wire's width, and of
\* exactly that width.
CtlTokens == {t \in Tokens : Len(t) \in {TokenWidth - 1, TokenWidth}}

Rgb8 == {<<255, 0, 0>>, <<85, 84, 1>>}

\* (r, g, b, a) given to set_rgba; the last has the bytes START and ESCAPE.
Rgba8 == Colors8 \cup {<<85, 84, 0, 1>>}

Rgb16 == {<<65535, 0, 0>>, <<258, 1, 515>>}

CtlCall(method, led, color, a, token) ==
    [method |-> method, led |-> led, color |-> color, a |-> a, token |-> token]

\* The calls a program makes once the controller exists.  a is the value of
\* the parameter a, the default when the caller passes none.
CtlMethodCalls ==
    {CtlCall("set_rgb", l, c, a, <<>>) : l \in Leds, c \in Rgb8, a \in {255, 4}}
    \cup {CtlCall("set_rgb_a", l, c, 255, <<>>) : l \in Leds, c \in Rgb8}
    \cup {CtlCall("set_rgb_hi", l, c, 65535, <<>>) : l \in Leds, c \in Rgb16}
    \cup {CtlCall("set_rgba", l, c, 0, <<>>) : l \in Leds, c \in Rgba8}
    \cup {CtlCall("set_rgba_hi", l, c, 0, <<>>) : l \in Leds, c \in Colors16}
    \cup {CtlCall("strobe", 0, <<>>, 0, <<>>)}

\* A variant whose constructor sends nothing.
CtlCommandsNoAuthenticate(call) ==
    CASE call.method = "__init__" -> <<>>
      [] call.method \in {"set_rgb", "set_rgb_a"} ->
            <<SetLedCommand(call.led, <<call.color[1], call.color[2], call.color[3], call.a>>)>>
      [] call.method = "set_rgb_hi" ->
            <<HighResSetLedCommand(call.led,
                                   <<call.color[1], call.color[2], call.color[3], call.a>>)>>
      [] call.method = "set_rgba" -> <<SetLedCommand(call.led, call.color)>>
      [] call.method = "set_rgba_hi" -> <<HighResSetLedCommand(call.led, call.color)>>
      [] call.method = "strobe" -> <<StrobeCommand>>

\* The commands a call hands to _send, in order.  set_rgb_a calls set_rgb.
CtlCommands(call) ==
    CASE call.method = "__init__" -> <<AuthenticateCommand(call.token)>>
      [] call.method \in {"set_rgb", "set_rgb_a"} ->
            <<SetLedCommand(call.led, <<call.color[1], call.color[2], call.color[3], call.a>>)>>
      [] call.method = "set_rgb_hi" ->
            <<HighResSetLedCommand(call.led,
                                   <<call.color[1], call.color[2], call.color[3], call.a>>)>>
      [] call.method = "set_rgba" -> <<SetLedCommand(call.led, call.color)>>
      [] call.method = "set_rgba_hi" -> <<HighResSetLedCommand(call.led, call.color)>>
      [] call.method = "strobe" -> <<StrobeCommand>>

\* _send for each command of cmds: the entries added to sent.
SentEntries(cmds, token) ==
    [i \in 1..Len(cmds) |-> [cmd |-> cmds[i], arg |-> token, res |-> to_str(cmds[i])]]

\* The bytes of the entries es, one after another.
RECURSIVE BytesOf(_)
BytesOf(es) == IF es = <<>> THEN <<>> ELSE es[1].res.bytes \o BytesOf(Tail(es))

InitCtl ==
    /\ linkProto = "ctl"
    /\ sent = <<>> /\ wire = <<>> /\ wirePos = 0
    /\ ctlCalls = <<>>
    /\ np = Idle /\ netOut = <<>>
    /\ BusIdle /\ EmuIdle /\ ModelIdle /\ SrcIdle

\* A call on the controller runs to its end.
CtlDo(call) ==
    /\ Len(ctlCalls) < MaxCtlCalls
    /\ ctlCalls' = Append(ctlCalls, call)
    /\ LET es == SentEntries(CtlCommands(call), call.token)
       IN  /\ sent' = sent \o es
           /\ wire' = wire \o BytesOf(es)
    /\ UNCHANGED <<linkProto, wirePos, busVars, netVars, emuVars,
                   modelRest, idle_queue, srcVars>>

\* FilelikeController(f, token), or SocketController(token, host, port)
\* once it has connected.
CtlConstruct == ctlCalls = <<>> /\ \E t \in CtlTokens : CtlDo(CtlCall("__init__", 0, <<>>, 0, t))

\* A method call on the constructed controller.
CtlMethod == ctlCalls # <<>> /\ \E call \in CtlMethodCalls : CtlDo(call)

NextCtl == CtlConstruct \/ CtlMethod

SpecCtl == InitCtl /\ [][NextCtl]_vars

----------------------------------------------------------------------------
(* SpecEmu: the emulator's controller thread.  Controller.run pulls frames *)
(* from read_frames, which pulls bytes from the byte source: stdin, or the *)
(* clients that NetworkByteSource accepts one after another.  sessions is  *)
(* the bytes of each client (of stdin: one session); frames is the frames  *)
(* read_frames yielded, each with the session whose byte completed it.     *)

InitEmu ==
    /\ emuSource \in {"stdin", "net"}
    /\ conn = IF emuSource = "stdin" THEN "open" ELSE "listening"
    /\ sessions = IF emuSource = "stdin" THEN << <<>> >> ELSE <<>>
    /\ thread = "running"
    /\ rf = ReadFramesInit
    /\ frames = <<>>
    /\ back_buffer = ZeroBuffer
    /\ front_buffer = ZeroBuffer
    /\ BusIdle /\ NetIdle /\ LinkIdle
    /\ OtherIdle

RECURSIVE TotalLen(_)
TotalLen(ss) == IF ss = <<>> THEN 0 ELSE Len(ss[1]) + TotalLen(Tail(ss))

\* The source yields byte b: one pass of read_frames' loop and, when it
\* yields a frame, one pass of run's loop.  An exception of either ends the
\* thread; the abandoned generators are closed, which closes the sockets.
EmuByte(b) ==
    /\ thread = "running"
    /\ conn \in {"open", "connected"}
    /\ TotalLen(sessions) < MaxEmuStream
    /\ sessions' = [sessions EXCEPT ![Len(sessions)] = Append(@, b)]
    /\ rf' = ReadFramesStep(rf, b)
    /\ LET applied == RunFrame(rf'.frame, back_buffer, front_buffer)
           dies == rf'.raised # "" \/ (rf'.yields /\ applied.raised)
       IN  /\ frames' = IF rf'.yields
                        THEN Append(frames, [frame |-> rf'.frame, session |-> Len(sessions)])
                        ELSE frames
           /\ back_buffer' = IF rf'.yields THEN applied.back ELSE back_buffer
           /\ front_buffer' = IF rf'.yields THEN applied.front ELSE front_buffer
           /\ idle_queue' = IF rf'.yields /\ applied.strobed
                             THEN idle_queue + 1 ELSE idle_queue
           /\ thread' = IF dies THEN "raised" ELSE thread
           /\ conn' = IF dies THEN "down" ELSE conn
    /\ UNCHANGED <<emuSource, busVars, netVars, linkVars, modelRest, srcVars, ctlCalls>>

\* StdinByteSource: read(1) returns nothing; the generators return and run
\* ends.
StdinEOF ==
    /\ emuSource = "stdin" /\ thread = "running" /\ conn = "open"
    /\ conn' = "eof"
    /\ thread' = "finished"
    /\ UNCHANGED <<emuSource, sessions, rf, frames, back_buffer, front_buffer,
                   busVars, netVars, linkVars, otherVars>>

\* NetworkByteSource.get_bytes: accept() returns the next client.
Accept ==
    /\ emuSource = "net" /\ thread = "running" /\ conn = "listening"
    /\ Len(sessions) < MaxClients
    /\ conn' = "connected"
    /\ sessions' = Append(sessions, <<>>)
    /\ UNCHANGED <<emuSource, thread, rf, frames, back_buffer, front_buffer,
                   busVars, netVars, linkVars, otherVars>>

\* The client closes: recv returns no data, _read_bytes ends, the finally
\* clause closes the socket and the loop goes back to accept().
ClientClose ==
    /\ emuSource = "net" /\ thread = "running" /\ conn = "connected"
    /\ conn' = "listening"
    /\ UNCHANGED <<emuSource, sessions, thread, rf, frames, back_buffer, front_buffer,
                   busVars, netVars, linkVars, otherVars>>

NextEmu == (\E b \in EmuBytes : EmuByte(b)) \/ StdinEOF \/ Accept \/ ClientClose

SpecEmu == InitEmu /\ [][NextEmu]_vars

----------------------------------------------------------------------------
(* SpecModel: the emulator's Model between its two threads.  The           *)
(* controller thread calls set_value and strobe; the GTK main loop runs    *)
(* the view's redraw, queued by the observer or started by a configure     *)
(* event.  A buffer is a function from module to LED to colour channel;    *)
(* the list deepcopy is building has the rows copied so far.  tmp_buffer   *)
(* is the list under construction and published says that front_buffer     *)
(* refers to that same list.  snapshots is the back buffer at              *)
(* construction and at each call of strobe; obsCalls is the observers      *)
(* called, in order; viewRead holds the view's latest read of a cell.      *)

\* Model.add_observer
add_observer(obs, o) == Append(obs, o)

\* Model.observers once main has built the model and the view: __init__
\* makes the list empty and GtkView.__init__ adds please_redraw.
observers == add_observer(<<>>, "please_redraw")

\* The arguments the controller thread passes to set_value: the first and
\* the last module and one past the last, the first channel and one past the
\* last, and two values.
ModelModules == {0, Modules - 1, Modules}
ModelChannels == {0, 3 * LedsPerModule}
ModelValues == {1, 2}

InitModel ==
    /\ back_buffer = ZeroBuffer
    /\ front_buffer = ZeroBuffer
    /\ mpc = "idle" /\ tmp_buffer = <<>> /\ published = FALSE
    /\ snapshots = <<ZeroBuffer>>
    /\ obsCalls = <<>> /\ mcalls = 0
    /\ vpc = <<>> /\ idle_queue = 0 /\ viewRead = {} /\ configures = 0
    /\ emuSource = "none" /\ conn = "none" /\ sessions = <<>> /\ thread = "none"
    /\ rf = Idle /\ frames = <<>>
    /\ BusIdle /\ NetIdle /\ LinkIdle /\ SrcIdle /\ CtlIdle

\* The steps of strobe, in program order: deepcopy builds the new list, the
\* assignment stores it in front_buffer, the loop calls the observers.
StrobeOrderAssignFirst == <<"assign", "copy", "notify">>

StrobeOrder == <<"copy", "assign", "notify">>

NextPhase(ph) ==
    LET i == CHOOSE j \in 1..Len(StrobeOrder) : StrobeOrder[j] = ph
    IN  IF i = Len(StrobeOrder) THEN "idle" ELSE StrobeOrder[i + 1]

\* The observer calls of one strobe, added to the calls so far.
StrobeNotifiedTwice(calls) == calls \o observers \o observers

StrobeNotified(calls) == calls \o observers

\* The controller thread calls set_value.
ModelSetValue(module, channel, value) ==
    /\ mpc = "idle" /\ mcalls < MaxModelCalls
    /\ back_buffer' = set_value(back_buffer, module, channel, value)
    /\ mcalls' = mcalls + 1
    /\ UNCHANGED <<front_buffer, mpc, tmp_buffer, published, snapshots, obsCalls,
                   vpc, idle_queue, viewRead, configures>>

\* The controller thread calls strobe: deepcopy starts a new list.
StrobeCall ==
    /\ mpc = "idle" /\ mcalls < MaxModelCalls
    /\ mcalls' = mcalls + 1
    /\ mpc' = StrobeOrder[1]
    /\ tmp_buffer' = <<>>
    /\ published' = FALSE
    /\ snapshots' = Append(snapshots, back_buffer)
    /\ UNCHANGED <<back_buffer, front_buffer, obsCalls,
                   vpc, idle_queue, viewRead, configures>>

\* deepcopy copies the next row of the back buffer into the new list.
StrobeCopyRow ==
    /\ mpc = "copy"
    /\ LET k == Cardinality(DOMAIN tmp_buffer)
       IN  /\ tmp_buffer' = tmp_buffer @@ (k :> back_buffer[k])
           /\ mpc' = IF k + 1 = Modules THEN NextPhase("copy") ELSE mpc
    /\ front_buffer' = IF published THEN tmp_buffer' ELSE front_buffer
    /\ UNCHANGED <<back_buffer, published, snapshots, obsCalls, mcalls,
                   vpc, idle_queue, viewRead, configures>>

\* self.front_buffer = <the new list>
StrobeAssign ==
    /\ mpc = "assign"
    /\ front_buffer' = tmp_buffer
    /\ published' = TRUE
    /\ mpc' = NextPhase("assign")
    /\ UNCHANGED <<back_buffer, tmp_buffer, snapshots, obsCalls, mcalls,
                   vpc, idle_queue, viewRead, configures>>

\* for observer in self.observers: observer().  please_redraw queues one
\* idle_func on the main loop.  strobe returns.
StrobeNotify ==
    /\ mpc = "notify"
    /\ obsCalls' = StrobeNotified(obsCalls)
    /\ idle_queue' = idle_queue + (Len(obsCalls') - Len(obsCalls))
    /\ mpc' = NextPhase("notify")
    /\ tmp_buffer' = <<>>
    /\ published' = FALSE
    /\ UNCHANGED <<back_buffer, front_buffer, snapshots, mcalls,
                   vpc, viewRead, configures>>

\* The main loop runs a queued idle_func, which calls redraw.
ViewIdleFunc ==
    /\ vpc = <<>> /\ idle_queue > 0
    /\ idle_queue' = idle_queue - 1
    /\ vpc' = <<0, 0>>
    /\ UNCHANGED <<back_buffer, front_buffer, mpc, tmp_buffer, published, snapshots,
                   obsCalls, mcalls, viewRead, configures>>

\* The main loop delivers a configure event: on_configure calls redraw.
ViewConfigure ==
    /\ vpc = <<>> /\ configures < MaxConfigures
    /\ configures' = configures + 1
    /\ vpc' = <<0, 0>>
    /\ UNCHANGED <<back_buffer, front_buffer, mpc, tmp_buffer, published, snapshots,
                   obsCalls, mcalls, idle_queue, viewRead>>

\* One pass of redraw's inner loop: self.model.front_buffer[y][x] for the
\* cell at hand, then on to the next cell (x within y), or back to the main
\* loop after the last.
RedrawCell ==
    /\ vpc # <<>>
    /\ LET y == vpc[1]
           x == vpc[2]
           ok == y \in DOMAIN front_buffer
       IN  /\ viewRead' = {[y |-> y, x |-> x, ok |-> ok,
                            complete |-> DOMAIN front_buffer = 0..(Modules - 1),
                            during |-> mpc,
                            led |-> IF ok THEN front_buffer[y][x] ELSE <<>>]}
           /\ vpc' = IF x + 1 < LedsPerModule THEN <<y, x + 1>>
                     ELSE IF y + 1 < Modules THEN <<y + 1, 0>>
                     ELSE <<>>
    /\ UNCHANGED <<back_buffer, front_buffer, mpc, tmp_buffer, published, snapshots,
                   obsCalls, mcalls, idle_queue, configures>>

NextModel ==
    /\ \/ \E module \in ModelModules, channel \in ModelChannels, value \in ModelValues :
              ModelSetValue(module, channel, value)
       \/ StrobeCall
       \/ StrobeCopyRow
       \/ StrobeAssign
       \/ StrobeNotify
       \/ ViewIdleFunc
       \/ ViewConfigure
       \/ RedrawCell
    /\ UNCHANGED <<emuSource, conn, sessions, thread, rf, frames,
                   busVars, netVars, linkVars, srcVars, ctlCalls>>

SpecModel == InitModel /\ [][NextModel]_vars

----------------------------------------------------------------------------
(* SpecSource: NetworkByteSource.get_bytes and its clients.  A client      *)
(* connects (the listening socket queues it), sends bytes (the kernel      *)
(* buffers them, accepted or not) and closes.  The generator accepts the   *)
(* head of the queue, yields what recv returns byte by byte, and on the    *)
(* empty recv closes the socket and accepts again.  A byte is tagged with  *)
(* its client and its place in what that client sent; stream is the bytes  *)
(* yielded, accepted the clients in the order accept() returned them,      *)
(* serving the client being read (0 inside accept()), chunk the rest of    *)
(* the data of the latest recv.                                            *)

ClientIds == 1..MaxClients

InitSource ==
    /\ clients = [c \in ClientIds |-> [state |-> "away", buf |-> <<>>, sent |-> 0]]
    /\ backlog = <<>>
    /\ serving = 0
    /\ chunk = <<>>
    /\ stream = <<>>
    /\ accepted = <<>>
    /\ BusIdle /\ NetIdle /\ LinkIdle /\ EmuIdle /\ ModelIdle /\ CtlIdle

\* A variant that accepts whenever a client is queued.
AcceptAnyTime == TRUE

\* The generator is at accept(): at the first pass of the loop, or after
\* _read_bytes has returned and the finally clause has closed the client.
AtAccept == serving = 0 /\ chunk = <<>>

\* A client connects.
ClientConnect(c) ==
    /\ clients[c].state = "away"
    /\ clients' = [clients EXCEPT ![c].state = "connected"]
    /\ backlog' = Append(backlog, c)
    /\ UNCHANGED <<serving, chunk, stream, accepted>>

\* A connected client sends its next byte.
ClientSend(c) ==
    /\ clients[c].state = "connected"
    /\ clients[c].sent < MaxClientBytes
    /\ clients' = [clients EXCEPT ![c].sent = @ + 1,
                                  ![c].buf = Append(@, [client |-> c, n |-> clients[c].sent + 1])]
    /\ UNCHANGED <<backlog, serving, chunk, stream, accepted>>

\* A connected client closes its end.
ClientShutdown(c) ==
    /\ clients[c].state = "connected"
    /\ clients' = [clients EXCEPT ![c].state = "closed"]
    /\ UNCHANGED <<backlog, serving, chunk, stream, accepted>>

\* server_sck.accept() returns the client at the head of the queue.
SourceAccept ==
    /\ AtAccept
    /\ backlog # <<>>
    /\ serving' = Head(backlog)
    /\ backlog' = Tail(backlog)
    /\ accepted' = Append(accepted, Head(backlog))
    /\ chunk' = <<>>
    /\ UNCHANGED <<clients, stream>>

\* sck.recv(1024) returns some of the bytes buffered for the client.
SourceRecv ==
    /\ serving # 0 /\ chunk = <<>>
    /\ clients[serving].buf # <<>>
    /\ \E k \in 1..Len(clients[serving].buf) :
          /\ chunk' = SubSeq(clients[serving].buf, 1, k)
          /\ clients' = [clients EXCEPT ![serving].buf = SubSeq(@, k + 1, Len(@))]
    /\ UNCHANGED <<backlog, serving, stream, accepted>>

\* yield from data: the next byte of the data goes to the consumer.
SourceYield ==
    /\ chunk # <<>>
    /\ stream' = Append(stream, Head(chunk))
    /\ chunk' = Tail(chunk)
    /\ UNCHANGED <<clients, backlog, serving, accepted>>

\* recv returns no data: the client has closed and all it sent was read.
\* _read_bytes returns, the finally clause closes the socket.
SourceEOF ==
    /\ serving # 0 /\ chunk = <<>>
    /\ clients[serving].buf = <<>> /\ clients[serving].state = "closed"
    /\ serving' = 0
    /\ UNCHANGED <<clients, backlog, chunk, stream, accepted>>

NextSource ==
    /\ \/ \E c \in ClientIds : ClientConnect(c)
       \/ \E c \in ClientIds : ClientSend(c)
       \/ \E c \in ClientIds : ClientShutdown(c)
       \/ SourceAccept
       \/ SourceRecv
       \/ SourceYield
       \/ SourceEOF
    /\ UNCHANGED <<busVars, netVars, linkVars, emuVars, modelRest, idle_queue, ctlCalls>>

SpecSource == InitSource /\ [][NextSource]_vars

----------------------------------------------------------------------------
(* Reference forms used to state the claims. *)

IsPrefix(s, t) == Len(s) <= Len(t) /\ SubSeq(t, 1, Len(s)) = s

Last(s) == s[Len(s)]

\* The wire form of one byte of a frame: ESCAPE and the code for a reserved
\* byte, the byte itself otherwise.
EscapedByte(b) ==
    IF b = 84 THEN <<84, 0>> ELSE IF b = 85 THEN <<84, 1>> ELSE <<b>>

RECURSIVE EscapedForm(_)
EscapedForm(s) ==
    IF s = <<>> THEN <<>> ELSE EscapedByte(s[1]) \o EscapedForm(Tail(s))

CountOf(b, s) == Cardinality({i \in 1..Len(s) : s[i] = b})

\* Whether s is the escaped form of some bytes: no START, and every
\* ESCAPE followed by the code 0x00 or 0x01.
RECURSIVE WellFormedEscaped(_)
WellFormedEscaped(s) ==
    IF s = <<>> THEN TRUE
    ELSE IF s[1] = 85 THEN FALSE
    ELSE IF s[1] = 84
         THEN Len(s) >= 2 /\ s[2] \in {0, 1} /\ WellFormedEscaped(SubSeq(s, 3, Len(s)))
    ELSE WellFormedEscaped(Tail(s))

\* The bytes a well-formed escaped form stands for.
RECURSIVE UnescapedForm(_)
UnescapedForm(s) ==
    IF s = <<>> THEN <<>>
    ELSE IF s[1] = 84 THEN <<84 + s[2]>> \o UnescapedForm(SubSeq(s, 3, Len(s)))
    ELSE <<s[1]>> \o UnescapedForm(Tail(s))

\* The stretches of s between its START bytes: the first is what precedes
\* the first START, the last what follows the last one.
RECURSIVE SplitOnStart(_, _)
SplitOnStart(s, cur) ==
    IF s = <<>> THEN <<cur>>
    ELSE IF s[1] = 85 THEN <<cur>> \o SplitOnStart(Tail(s), <<>>)
    ELSE SplitOnStart(Tail(s), Append(cur, s[1]))

\* A well-formed escaped frame: the escaped form of an address and payload.
IsEscapedFrame(s) == s # <<>> /\ WellFormedEscaped(s)

\* The frames read_frames has yielded, without the sessions.
FramesOnly == [i \in 1..Len(frames) |-> frames[i].frame]

\* The channel payloads of module a.
Payloads(a) == [1..module_lens[a] -> BusBytes]

----------------------------------------------------------------------------
(* C7: in BusProtocol.read, while the raw bytes received after the address *)
(* of module a are a prefix of the well-formed escaped form of a payload p *)
(* of module_lens[a] values, the decoder has not raised, and it yields     *)
(* exactly when the whole escaped form has been received, that is after    *)
(* N + (number of ESCAPE bytes) raw bytes; what it yields then is          *)
(* SetChannels(a, p), with exactly N unescaped values.                     *)
C7_FixedPointEscapeExtension ==
    (bp.pc \in {"L116", "L138", "raised"} /\ bp.addr \in DOMAIN module_lens) =>
        \A p \in Payloads(bp.addr) :
            LET raw == EscapedForm(p)
                got == bp.values \o bp.new_values
            IN  IsPrefix(got, raw) =>
                    /\ bp.pc # "raised"
                    /\ (got = raw) <=> (bp.pc = "L138")
                    /\ bp.pc = "L138" =>
                          /\ Len(bp.values) = module_lens[bp.addr] + CountOf(84, raw)
                          /\ bp.yielded = BusSetChannelsCommand(bp.addr, p)
                          /\ Len(bp.yielded.data) = module_lens[bp.addr]
                          /\ Last(busOut) = [cmd |-> bp.yielded, at |-> Len(busFed)]

\* C7's case: module 0 (two channels) received ESCAPE 0x00 ESCAPE 0x01, a
\* chained run of escapes that needed two extension batches.
C7_Witness ==
    /\ bp.pc = "L138"
    /\ bp.addr = 0
    /\ bp.values = <<84, 0, 84, 1>>
    /\ bp.yielded = BusSetChannelsCommand(0, <<84, 85>>)

----------------------------------------------------------------------------
(* C6: when BusProtocol.read raises UnexpectedSyncError for a literal      *)
(* START in the raw window of a SetChannels frame, no command is yielded   *)
(* for that frame and the session goes on: once the next well-formed frame *)
(* (START, then the strobe address or a module address with its escaped    *)
(* payload) has been fed, that frame's command is yielded.                 *)
C6_DesyncThenNextFrameDecodes ==
    \A j \in DOMAIN busOut :
        (busOut[j].cmd = Exc("UnexpectedSyncError") /\ bp.addr \in DOMAIN module_lens) =>
            LET rest == SubSeq(busFed, busOut[j].at + 1, Len(busFed))
            IN  /\ rest = <<85, 254>> =>
                      Last(busOut) = [cmd |-> BusStrobeCommand, at |-> Len(busFed)]
                /\ \A a \in DOMAIN module_lens : \A p \in Payloads(a) :
                      rest = <<85, a>> \o EscapedForm(p) =>
                          Last(busOut) = [cmd |-> BusSetChannelsCommand(a, p),
                                          at |-> Len(busFed)]

----------------------------------------------------------------------------
(* C1: for every representable command, the bytes of its to_str(), fed to  *)
(* the matching decoder, yield exactly one command, equal to the command   *)
(* encoded (same type, same field values).                                 *)

\* An Authenticate is representable when its token has 16 bytes.
Representable(s) == s.cmd.type = "Authenticate" => Len(s.arg) = TokenWidth

\* What the link's decoder has given back so far.
LinkOut == IF linkProto = "net" THEN netOut ELSE busOut

\* C1: one representable command, encoded and wholly delivered, comes out
\* of the decoder as exactly that one command.
C1_RoundTrip ==
    (Len(sent) = 1 /\ Representable(sent[1]) /\ wirePos = Len(wire)) =>
        /\ sent[1].res.raised = ""
        /\ [i \in 1..Len(LinkOut) |-> LinkOut[i].cmd] = <<sent[1].cmd>>

----------------------------------------------------------------------------
(* C2: BusSetChannelsCommand.to_str returns START followed, for every byte *)
(* of address ++ channels in order, by ESCAPE and the code when the byte   *)
(* is reserved and by the byte itself otherwise.                           *)
C2_BusFrameEncoding ==
    \A i \in DOMAIN sent :
        sent[i].cmd.type = "BusSetChannels" =>
            sent[i].res = Returned(<<85>> \o EscapedForm(<<sent[i].cmd.id>> \o sent[i].cmd.data))

----------------------------------------------------------------------------
(* C9: the wire form of Authenticate is the opcode 0x02 and exactly 16     *)
(* token bytes: a shorter token is padded on the right with 0x00, a longer *)
(* one is rejected and nothing is written.                                 *)
C9_AuthenticateWireForm ==
    \A i \in DOMAIN sent :
        sent[i].cmd.type = "Authenticate" =>
            IF Len(sent[i].arg) <= 16
            THEN /\ sent[i].res.raised = ""
                 /\ Len(sent[i].res.bytes) = 17
                 /\ sent[i].res.bytes =
                        <<2>> \o sent[i].arg \o [k \in 1..(16 - Len(sent[i].arg)) |-> 0]
            ELSE sent[i].res.raised # "" /\ sent[i].res.bytes = <<>>

----------------------------------------------------------------------------
(* C10: NetProtocol.read dispatches on the opcode over any sequence of     *)
(* commands: 0xFF yields Strobe at once, 0x01 SetLed after 6 payload       *)
(* bytes, 0x02 Authenticate after 16, 0x03 HighResSetLed after 10 with     *)
(* big-endian 16-bit fields; the byte after a command's last payload byte  *)
(* is the next opcode.                                                     *)

NetOpcodes == {255, 1, 2, 3}

NetPayloadLen(op) == CASE op = 255 -> 0 [] op = 1 -> 6 [] op = 2 -> 16 [] op = 3 -> 10

\* The command the table gives for an opcode and its payload.
NetTableCmd(op, pl) ==
    CASE op = 255 -> StrobeCommand
      [] op = 1 -> SetLedCommand(pl[1] * 256 + pl[2], <<pl[3], pl[4], pl[5], pl[6]>>)
      [] op = 2 -> Cmd("Authenticate", 0, pl)
      [] op = 3 -> HighResSetLedCommand(pl[1] * 256 + pl[2],
                        <<pl[3] * 256 + pl[4], pl[5] * 256 + pl[6],
                          pl[7] * 256 + pl[8], pl[9] * 256 + pl[10]>>)

\* The commands the table gives for a byte stream read from position i,
\* each with the position of its last byte; ok is FALSE from an opcode the
\* table does not have.
RECURSIVE NetTableDecode(_, _)
NetTableDecode(bytes, i) ==
    IF i > Len(bytes) THEN [ok |-> TRUE, out |-> <<>>]
    ELSE IF bytes[i] \notin NetOpcodes THEN [ok |-> FALSE, out |-> <<>>]
    ELSE LET n == NetPayloadLen(bytes[i])
         IN  IF i + n > Len(bytes) THEN [ok |-> TRUE, out |-> <<>>]
             ELSE LET rest == NetTableDecode(bytes, i + n + 1)
                  IN  [ok |-> rest.ok,
                       out |-> <<[cmd |-> NetTableCmd(bytes[i], SubSeq(bytes, i + 1, i + n)),
                                  at |-> i + n]>> \o rest.out]

\* C10: at every point of the delivery, what NetProtocol.read has given
\* back is what the table gives for the bytes delivered so far.
C10_NetDispatch ==
    linkProto = "net" =>
        LET ref == NetTableDecode(SubSeq(wire, 1, wirePos), 1)
        IN  ref.ok => netOut = ref.out

----------------------------------------------------------------------------
(* C3: for every address and payload, the bytes of                         *)
(* BusSetChannelsCommand.to_str followed by one terminating START, read by *)
(* Controller.read_frames, emit exactly one frame, [address] ++ payload.   *)
C3_EscapingRoundTrip ==
    \A a \in {0, 1} : \A p \in UNION {[1..n -> EmuBytes] : n \in 0..2} :
        LET res == BusSetChannelsCommand_to_str(BusSetChannelsCommand(a, p))
        IN  (Len(sessions) = 1 /\ sessions[1] = res.bytes \o <<85>>) =>
                /\ res.raised = ""
                /\ FramesOnly = << <<a>> \o p >>

----------------------------------------------------------------------------
(* C4, as claimed: for one stream A, START, F1, START, F2 and then end of  *)
(* stream, with A free of START and F1, F2 well-formed escaped frames,     *)
(* read_frames has emitted exactly the two frames, unescaped F1 and F2.    *)
C4_TwoFramesAtEndOfStream ==
    (emuSource = "stdin" /\ thread = "finished") =>
        LET parts == SplitOnStart(sessions[1], <<>>)
        IN  (Len(parts) = 3 /\ IsEscapedFrame(parts[2]) /\ IsEscapedFrame(parts[3])) =>
                FramesOnly = <<UnescapedForm(parts[2]), UnescapedForm(parts[3])>>

(* C4, amended: for one stream A, START, F1, START, F2, with A free of     *)
(* START and F1, F2 well-formed escaped frames, read_frames has emitted    *)
(* exactly one frame, the unescaped F1, up to and including the end of the *)
(* stream; once a START that terminates F2 has been read it has emitted    *)
(* exactly two, the unescaped F1 and F2 in that order.  No byte of A is in *)
(* any frame, and the controller thread has not raised.                    *)
C4_Resynchronization ==
    Len(sessions) = 1 =>
        LET parts == SplitOnStart(sessions[1], <<>>)
        IN  (/\ Len(parts) \in {3, 4}
             /\ IsEscapedFrame(parts[2]) /\ IsEscapedFrame(parts[3])
             /\ Len(parts) = 4 => parts[4] = <<>>) =>
                /\ thread # "raised"
                /\ FramesOnly = IF Len(parts) = 4
                                THEN <<UnescapedForm(parts[2]), UnescapedForm(parts[3])>>
                                ELSE <<UnescapedForm(parts[2])>>

\* C4's case: one byte of garbage, then the frames [1] and [0xFE], the
\* second terminated by a START.
C4_Witness ==
    /\ emuSource = "stdin"
    /\ sessions = << <<0, 85, 1, 85, 254, 85>> >>
    /\ FramesOnly = << <<1>>, <<254>> >>

----------------------------------------------------------------------------
(* C5: an invalid escape in read_frames is recoverable: the decoder        *)
(* reports ProtocolViolation, drops the partial frame and seeks the next   *)
(* START, and the controller thread keeps running.                         *)
C5_InvalidEscapeRecoverable ==
    rf.raised = "ProtocolViolation" =>
        /\ thread = "running"
        /\ rf.state = STATE_IGNORE
        /\ rf.payload_buf = <<>>

----------------------------------------------------------------------------
(* C8: a truncated frame is never observable: the frames emitted while a   *)
(* client is served are made of that client's bytes alone, that is, they   *)
(* are the frames a decoder with an empty buffer (seeking START, or in a   *)
(* frame that has no byte yet) emits for that client's bytes; the first    *)
(* session starts seeking START.                                           *)

\* The frames read_frames yields for bytes, from generator state st.
RECURSIVE FramesFrom(_, _)
FramesFrom(st, bytes) ==
    IF bytes = <<>> \/ st.raised # "" THEN <<>>
    ELSE LET nxt == ReadFramesStep(st, bytes[1])
         IN  (IF nxt.yields THEN <<nxt.frame>> ELSE <<>>) \o FramesFrom(nxt, Tail(bytes))

\* The frames emitted while session k was served.
RECURSIVE FramesOfSession(_, _)
FramesOfSession(fs, k) ==
    IF fs = <<>> THEN <<>>
    ELSE (IF fs[1].session = k THEN <<fs[1].frame>> ELSE <<>>) \o FramesOfSession(Tail(fs), k)

\* C8: every session's frames are those of a decoder with an empty buffer
\* run on that session's bytes alone.
C8_TruncatedFrameNeverObservable ==
    \A k \in DOMAIN sessions :
        \/ FramesOfSession(frames, k) = FramesFrom(ReadFramesInit, sessions[k])
        \/ /\ k > 1
           /\ FramesOfSession(frames, k) =
                  FramesFrom([ReadFramesInit EXCEPT !.state = STATE_NORMAL], sessions[k])

----------------------------------------------------------------------------
(* C11.  Strobe latching in the Model.  set_value changes the back buffer  *)
(* only; strobe makes the front buffer equal to the back buffer cell for   *)
(* cell; so between calls the front buffer is the back buffer as it was at *)
(* the most recent strobe, all zeros before the first; and each strobe has *)
(* called every registered observer exactly once.                          *)

\* The strobes that have been called.
Strobes == Len(snapshots) - 1

\* C11: while no call is running the front buffer is the back buffer of the
\* latest strobe (zeros before the first) and every observer was called once
\* per strobe; once strobe has assigned, front equals back cell for cell;
\* until then the front buffer is still that of the strobe before.
C11_StrobeLatching ==
    /\ mpc = "idle" =>
          /\ front_buffer = Last(snapshots)
          /\ Strobes = 0 => front_buffer = ZeroBuffer
          /\ Len(obsCalls) = Strobes * Len(observers)
          /\ \A i \in 1..Len(observers) : CountOf(observers[i], obsCalls) = Strobes
    /\ mpc = "notify" =>
          \A y \in 0..(Modules - 1), x \in 0..(LedsPerModule - 1), c \in 0..2 :
              front_buffer[y][x][c] = back_buffer[y][x][c]
    /\ mpc \in {"copy", "assign"} => front_buffer = snapshots[Strobes]

\* set_value, strobe, set_value: the front buffer holds the first value and
\* the back buffer the second.
C11_Witness ==
    /\ mpc = "idle" /\ Strobes = 1 /\ obsCalls = observers
    /\ front_buffer[0][0][0] = 1 /\ back_buffer[0][0][0] = 2

----------------------------------------------------------------------------
(* C20.  The view's reads against the controller thread.  Every cell the   *)
(* view reads comes from a front buffer that was completely copied and     *)
(* assigned: the initial zeros or the snapshot of some strobe.  The view   *)
(* never finds the list it reads unfinished, and never sees a value of     *)
(* set_value that no strobe has latched.                                   *)

\* The snapshots that strobe has assigned to front_buffer so far.
Assigned == IF mpc \in {"idle", "notify"} THEN Len(snapshots) ELSE Len(snapshots) - 1

\* C20: the view's read found a complete list and the cell's value is that
\* of an assigned snapshot.
C20_ViewReadsLatchedSnapshot ==
    \A r \in viewRead :
        /\ r.ok
        /\ r.complete
        /\ \E k \in 1..Assigned : r.led = snapshots[k][r.y][r.x]

\* The view read a cell while deepcopy was half-way, and got the latched
\* value, not the one set_value wrote since.
C20_Witness ==
    /\ mpc = "copy" /\ Cardinality(DOMAIN tmp_buffer) = 1
    /\ \E r \in viewRead :
          /\ r.during = "copy" /\ r.y = 0 /\ r.x = 0
          /\ r.led[0] = 1 /\ back_buffer[0][0][0] = 2

----------------------------------------------------------------------------
(* C12.  The bus-level strobe.  START and then 0xFE, at the start of the   *)
(* stream or right after a decoded command, make BusProtocol.read yield    *)
(* one BusStrobeCommand at the 0xFE: no payload byte is waited for and     *)
(* module_lens (which has no entry 0xFE) is not consulted.                 *)

\* The decoded commands of the output history (not the exceptions).
BusCmdTypes == {"BusStrobe", "BusSetChannels"}

\* C12: when the stream so far ends in START, 0xFE and that START came
\* first in the stream or right after the last byte of a decoded command, the
\* latest output is the strobe, yielded at the 0xFE, and it is the only
\* output there.
C12_BusStrobeAtAddress ==
    LET n == Len(busFed)
    IN  (/\ n >= 2
         /\ busFed[n - 1] = 85 /\ busFed[n] = 254
         /\ \/ n = 2
            \/ \E j \in DOMAIN busOut :
                  busOut[j].at = n - 2 /\ busOut[j].cmd.type \in BusCmdTypes)
        => /\ busOut # <<>>
           /\ Last(busOut) = [cmd |-> BusStrobeCommand, at |-> n]
           /\ Cardinality({j \in DOMAIN busOut : busOut[j].at = n}) = 1
           /\ bp.pc = "L109"
           /\ bp.yielded = BusStrobeCommand

\* A SetChannels frame for module 0, then a strobe frame right behind it.
C12_Witness ==
    /\ busFed = <<85, 0, 7, 7, 85, 254>>
    /\ busOut = <<[cmd |-> BusSetChannelsCommand(0, <<7, 7>>), at |-> 4],
                  [cmd |-> BusStrobeCommand, at |-> 6]>>

----------------------------------------------------------------------------
(* C13.  An address that is no module of module_lens.  The claim: a        *)
(* recoverable decode error; no command for that frame, and the session    *)
(* goes on at the next frame boundary, so that the well-formed frame that  *)
(* follows is decoded.                                                     *)

\* C13: after the IndexError of module_lens[addr], once a well-formed frame
\* has been fed, that frame's command is the latest output.
C13_UnknownAddressRecoverable ==
    \A j \in DOMAIN busOut :
        busOut[j].cmd = Exc("IndexError") =>
            LET rest == SubSeq(busFed, busOut[j].at + 1, Len(busFed))
            IN  /\ rest = <<85, 254>> =>
                      Last(busOut) = [cmd |-> BusStrobeCommand, at |-> Len(busFed)]
                /\ \A a \in DOMAIN module_lens : \A p \in Payloads(a) :
                      rest = <<85, a>> \o EscapedForm(p) =>
                          Last(busOut) = [cmd |-> BusSetChannelsCommand(a, p),
                                          at |-> Len(busFed)]

----------------------------------------------------------------------------
(* C17.  The byte after a command.  A command is yielded at its last       *)
(* payload byte (or at the strobe address).  If the next byte is START the *)
(* byte after it is read as the address, nothing sought and nothing        *)
(* dropped; if not, it and all bytes up to the next START are dropped and  *)
(* the address is read after that START.                                   *)

\* The index of the first START of s, 0 when it has none.
FirstStart(s) ==
    IF \E i \in 1..Len(s) : s[i] = 85
    THEN CHOOSE i \in 1..Len(s) : s[i] = 85 /\ \A k \in 1..(i - 1) : s[k] # 85
    ELSE 0

\* C17: with rest the bytes fed since the latest command was yielded.
\* Nothing fed: the generator is suspended at the yield of that command.
\* rest begins with START: the generator waits for the address, or has read
\* rest[2] as the address and every byte after it as payload.  rest begins
\* with another byte: the generator is seeking until rest has a START, and
\* then reads the byte after that START as the address.
C17_ByteAfterCommand ==
    (busOut # <<>> /\ Last(busOut).cmd.type \in BusCmdTypes) =>
        LET rest == SubSeq(busFed, Last(busOut).at + 1, Len(busFed))
            s == FirstStart(rest)
        IN  /\ rest = <<>> =>
                  bp.pc \in {"L109", "L138"} /\ bp.yielded = Last(busOut).cmd
            /\ (rest # <<>> /\ rest[1] = 85) =>
                  /\ Len(rest) = 1 => bp.pc = "L102"
                  /\ (Len(rest) >= 2 /\ rest[2] \in DOMAIN module_lens) =>
                        /\ bp.pc = "L116" /\ bp.addr = rest[2]
                        /\ bp.values \o bp.new_values = SubSeq(rest, 3, Len(rest))
            /\ (rest # <<>> /\ rest[1] # 85) =>
                  /\ s = 0 => bp.pc = "L98"
                  /\ (s > 0 /\ Len(rest) = s) => bp.pc = "L102"
                  /\ (s > 0 /\ Len(rest) > s /\ rest[s + 1] \in DOMAIN module_lens) =>
                        /\ bp.pc = "L116" /\ bp.addr = rest[s + 1]
                        /\ bp.values \o bp.new_values = SubSeq(rest, s + 2, Len(rest))

\* A strobe, then START at once: the next two bytes are module 0's address
\* and its first payload byte.
C17_Witness ==
    /\ busFed = <<85, 254, 85, 0, 1>>
    /\ Len(busOut) = 1
    /\ bp.pc = "L116" /\ bp.addr = 0 /\ bp.new_values = <<1>>

----------------------------------------------------------------------------
(* C14.  One client at a time.  get_bytes accepts a client only after the  *)
(* one before was read to its end and closed, so the bytes it yields are   *)
(* whole client sessions one after another, in the order of the accepts.   *)

\* Bytes 1..k of what client c sent.
SentBy(c, k) == [n \in 1..k |-> [client |-> c, n |-> n]]

\* What client c has sent and the generator has yielded: all of it but the
\* bytes still buffered and, for the client being read, those of the chunk.
YieldedOf(c) ==
    clients[c].sent - Len(clients[c].buf) - (IF c = serving THEN Len(chunk) ELSE 0)

\* The sessions of the first i accepted clients, one after another.
RECURSIVE SessionsInOrder(_)
SessionsInOrder(i) ==
    IF i = 0 THEN <<>>
    ELSE SessionsInOrder(i - 1) \o SentBy(accepted[i], YieldedOf(accepted[i]))

\* C14: the client being read is the latest accepted; every client accepted
\* before it (every accepted client, inside accept()) has closed and all it
\* sent has been yielded; no client is accepted twice; and the stream is the
\* accepted clients' bytes, session after session in accept order.
C14_OneClientAtATime ==
    /\ serving # 0 => (accepted # <<>> /\ serving = Last(accepted))
    /\ \A i \in 1..Len(accepted) :
          (i < Len(accepted) \/ serving = 0) =>
              LET c == accepted[i]
              IN  /\ clients[c].state = "closed"
                  /\ clients[c].buf = <<>>
                  /\ (c # serving => YieldedOf(c) = clients[c].sent)
    /\ \A i, j \in 1..Len(accepted) : accepted[i] = accepted[j] => i = j
    /\ (chunk = <<>> \/ serving # 0) => stream = SessionsInOrder(Len(accepted))

\* Client 2 was accepted first and read to its end while client 1 had
\* already sent; client 1's bytes follow client 2's.
C14_Witness ==
    /\ accepted = <<2, 1>>
    /\ stream = SentBy(2, 2) \o SentBy(1, 2)

----------------------------------------------------------------------------
(* C15.  The wire form of SetLed.  The claim: START, then 0x01, led_hi,    *)
(* led_lo, r, g, b, a passed through the frame codec's escaping.  to_str   *)
(* writes the opcode and the six bytes as they are, with no START before   *)
(* them and no escaping.                                                   *)

----------------------------------------------------------------------------
(* C18.  Authenticate first.  The constructor of a controller writes one   *)
(* Authenticate; every call of set_rgb, set_rgba, set_rgb_hi, set_rgba_hi  *)
(* or strobe after it writes one command, in call order; so Authenticate   *)
(* is the first thing on the connection and is never written again.        *)

\* The command a method is to write.
CommandTypeOf(method) ==
    CASE method = "__init__" -> "Authenticate"
      [] method \in {"set_rgb", "set_rgba", "set_rgb_a"} -> "SetLed"
      [] method \in {"set_rgb_hi", "set_rgba_hi"} -> "HighResSetLed"
      [] method = "strobe" -> "Strobe"

\* C18: nothing is written before the constructor; after it there is one
\* command per call, of the call's kind and for the call's led, in call
\* order; the first is Authenticate for the constructor's token and no other
\* is; and the bytes written are the commands' bytes in that order, the
\* Authenticate opcode first.
C18_AuthenticateFirst ==
    /\ ctlCalls = <<>> => (sent = <<>> /\ wire = <<>>)
    /\ ctlCalls # <<>> =>
          /\ Len(sent) = Len(ctlCalls)
          /\ ctlCalls[1].method = "__init__"
          /\ sent[1].cmd = AuthenticateCommand(ctlCalls[1].token)
          /\ \A i \in 1..Len(sent) :
                /\ sent[i].cmd.type = CommandTypeOf(ctlCalls[i].method)
                /\ sent[i].cmd.id = ctlCalls[i].led
                /\ sent[i].res.raised = ""
                /\ i > 1 => sent[i].cmd.type # "Authenticate"
          /\ wire = BytesOf(sent)
          /\ wire[1] = 2
          /\ SubSeq(wire, 1, Len(sent[1].res.bytes)) = sent[1].res.bytes

\* The constructor, set_rgb_hi and strobe: three commands on the wire.
C18_Witness ==
    /\ Len(ctlCalls) = 3
    /\ ctlCalls[2].method = "set_rgb_hi" /\ ctlCalls[3].method = "strobe"
    /\ sent[2].cmd = HighResSetLedCommand(1, <<65535, 0, 0, 65535>>)
    /\ Len(wire) = 17 + 11 + 1
    /\ wire[Len(wire)] = 255

----------------------------------------------------------------------------
(* C16.  Frame emission in read_frames.  Once synchronized, every START    *)
(* read in STATE_NORMAL yields the buffer as one frame, empties the buffer *)
(* and leaves the state as it is; nothing else yields a frame.  So the     *)
(* frames yielded are as many as the STARTs read in STATE_NORMAL, in       *)
(* stream order, each yielded when the START after it is read.             *)

\* The bytes the source has yielded, over all sessions.
RECURSIVE AllBytes(_)
AllBytes(ss) == IF ss = <<>> THEN <<>> ELSE ss[1] \o AllBytes(Tail(ss))

\* The STARTs read in STATE_NORMAL: all but the first START of the stream
\* (read in STATE_IGNORE) and a START read in STATE_ESCAPE, which raises
\* and so is the last byte read.
StartsInFrame ==
    LET all == AllBytes(sessions)
        n == CountOf(85, all)
        inEscape == IF rf.raised # "" /\ all # <<>> /\ Last(all) = 85 THEN 1 ELSE 0
    IN  IF n = 0 THEN 0 ELSE n - 1 - inEscape

\* C16: the frames yielded number the STARTs read in STATE_NORMAL; and in
\* every step that reads a byte, a START read in STATE_NORMAL appends the
\* buffer to the frames, empties the buffer and keeps the state, while any
\* other byte leaves the frames as they are.
C16_StartInFrameEmits ==
    /\ [](thread # "none" => Len(frames) = StartsInFrame)
    /\ [][TotalLen(sessions') = TotalLen(sessions) + 1 =>
             LET b == Last(Last(sessions'))
             IN  IF rf.state = STATE_NORMAL /\ b = 85
                 THEN /\ frames' = Append(frames, [frame |-> rf.payload_buf,
                                                   session |-> Len(sessions)])
                      /\ rf'.payload_buf = <<>>
                      /\ rf'.state = STATE_NORMAL
                 ELSE frames' = frames]_vars

\* Two frames, each yielded at the START after it; the decoder is in
\* STATE_NORMAL with an empty buffer.
C16_Witness ==
    /\ sessions = << <<85, 0, 85, 1, 0, 85>> >>
    /\ FramesOnly = << <<0>>, <<1, 0>> >>
    /\ rf.state = STATE_NORMAL /\ rf.payload_buf = <<>> /\ rf.yields

----------------------------------------------------------------------------
(* C19.  Controller.run on stdin.  On a stream with no invalid escape and  *)
(* no two adjacent STARTs, run applies every frame read_frames yields, in  *)
(* order, and returns at the end of the stream.  Two adjacent STARTs make  *)
(* read_frames yield an empty frame: run raises ProtocolViolation, the     *)
(* thread ends and nothing is applied after that.                          *)

\* Whether s is the beginning of a well-formed escaped frame.
BeginsWellFormed(s) ==
    \/ WellFormedEscaped(s)
    \/ s # <<>> /\ Last(s) = 84 /\ WellFormedEscaped(SubSeq(s, 1, Len(s) - 1))

\* No invalid escape in s: every stretch between two STARTs is well-formed
\* escaped, and so far the one after the last START.
NoInvalidEscape(s) ==
    LET parts == SplitOnStart(s, <<>>)
    IN  \A i \in 2..Len(parts) :
            IF i < Len(parts) THEN WellFormedEscaped(parts[i])
            ELSE BeginsWellFormed(parts[i])

\* The places of s where a START follows a START.
AdjacentStarts(s) == {i \in 1..(Len(s) - 1) : s[i] = 85 /\ s[i + 1] = 85}

\* The back buffer after the set_value calls of frame f: module f[1],
\* channel k gets f[k + 2].
BackAfter(back, f) ==
    [y \in 0..(Modules - 1) |-> [x \in 0..(LedsPerModule - 1) |-> [c \in 0..2 |->
        IF y = f[1] /\ 3 * x + c + 2 <= Len(f) THEN f[3 * x + c + 2] ELSE back[y][x][c]]]]

\* The buffers after the frames fs were applied in order; an empty frame
\* stops it.
RECURSIVE BuffersAfter(_, _, _)
BuffersAfter(fs, back, front) ==
    IF fs = <<>> \/ fs[1] = <<>> THEN <<back, front>>
    ELSE IF fs[1] = <<254>> THEN BuffersAfter(Tail(fs), back, back)
    ELSE BuffersAfter(Tail(fs), BackAfter(back, fs[1]), front)

\* C19: on stdin the buffers are those of the yielded frames applied in
\* order; without invalid escape and adjacent STARTs the thread has not
\* raised, and at end of stream it has finished; where a START follows a
\* START the stream was read no further, the latest frame is the empty one
\* and the thread has ended by run's ProtocolViolation; and the thread ends
\* with an exception in no other case than these two.
C19_RunAppliesFramesInOrder ==
    emuSource = "stdin" =>
        LET s == sessions[1]
        IN  /\ <<back_buffer, front_buffer>> = BuffersAfter(FramesOnly, ZeroBuffer, ZeroBuffer)
            /\ (NoInvalidEscape(s) /\ AdjacentStarts(s) = {}) =>
                  /\ thread \in {"running", "finished"}
                  /\ conn = "eof" => thread = "finished"
                  /\ \A i \in DOMAIN frames : frames[i].frame # <<>>
            /\ \A i \in AdjacentStarts(s) :
                  /\ i + 1 = Len(s)
                  /\ thread = "raised" /\ rf.raised = ""
                  /\ frames # <<>> /\ Last(frames).frame = <<>>
                  /\ \A j \in 1..(Len(frames) - 1) : frames[j].frame # <<>>
            /\ thread = "raised" => (rf.raised # "" \/ AdjacentStarts(s) # {})

\* set_value, strobe, end of stream: the thread has finished with the
\* value latched.
C19_Witness ==
    /\ emuSource = "stdin" /\ conn = "eof" /\ thread = "finished"
    /\ sessions = << <<85, 0, 1, 85, 254, 85>> >>
    /\ front_buffer[0][0][0] = 1

====
